---- MODULE Spec2Model ----
(***************************************************************************)
(* Deposit payment-confirmation poller of staticfiles/core/js/deposit.js.  *)
(*                                                                         *)
(* The page runs on the browser's single event loop.  Every action below   *)
(* is one run-to-completion piece of a handler: a change of the amount or  *)
(* currency input, the continuation of updateEstimate after its awaits, a  *)
(* form submission, the                                                    *)
(* continuation of createDeposit after its awaits, one firing of the       *)
(* setInterval callback up to its first await, the continuation of that    *)
(* callback after its awaits, and the redirect timer.  The two awaits of a *)
(* callback (fetch, response.json()) change no state between them and are  *)
(* taken as one step whose outcome is the reply or a rejection.            *)
(*                                                                         *)
(* A poll session is one call of startPaymentCheck; it is identified by    *)
(* the timer id setInterval returned to it, 1, 2, ... in order of creation.*)
(* The current session is the newest one, whose id paymentCheckInterval    *)
(* holds; the older ones are superseded.  The history variables (done,     *)
(* prefix, completedAt, successCalls, timeoutToasts) record what the       *)
(* callbacks of the current session have done and start afresh with each   *)
(* session; staleSuccess and staleTimeout record notifications made by     *)
(* callbacks of superseded sessions.                                       *)
(***************************************************************************)
EXTENDS Integers, FiniteSets

\* deposit.js:3
MAX_RETRIES == 20

\* Bounds of the model.
MaxSubmits  == 2      \* form submissions, hence poll sessions
MaxInFlight == 3      \* status queries awaiting their reply at one time
MaxTicks    == 22     \* interval firings of one session
MaxEstimates == 1     \* estimate requests awaiting their reply at one time

Sessions == 1..MaxSubmits

\* What one status query can come back with: the fetch or the JSON parse
\* rejects, or the body says success:false, or it carries a status.
Replies == {"failed", "nosuccess", "pending", "completed"}

\* What one creation request can come back with.
CreateReplies == {"failed", "nosuccess", "ok"}

\* What one estimate request can come back with.
EstimateReplies == {"failed", "nosuccess", "ok"}

VARIABLES
    loaded,                 \* the deposit page is still the current document
    formDisabled,           \* inputs and buttons of the form are disabled
    overlay,                \* the loading overlay is visible
    creating,               \* createDeposit calls awaiting their reply
    submits,                \* form submissions so far
    nTimers,                \* timer ids handed out by setInterval so far
    paymentCheckInterval,   \* module-level timer handle, 0 = undefined
    timers,                 \* interval timers currently armed
    retryCount,             \* DepositManager.retryCount
    redirectPending,        \* handlePaymentSuccess's setTimeout is armed
    inflight,               \* per session: status queries awaiting a reply
    done,                   \* current session: status replies processed
    prefix,                 \* current session: kind of the replies processed
                            \* before its first completed one
    completedAt,            \* current session: index of the tick whose reply
                            \* was the first completed one, 0 = none yet
    successCalls,           \* current session: handlePaymentSuccess calls
                            \* made by its callbacks
    timeoutToasts,          \* current session: 'timed out' toasts shown by
                            \* its callbacks
    staleSuccess,           \* a callback of a superseded session has called
                            \* handlePaymentSuccess
    staleTimeout,           \* a callback of a superseded session has shown
                            \* the 'timed out' toast
    errorToasts,            \* 'Failed to create deposit' toasts shown
    created,                \* creation requests the server answered with
                            \* success:true
    estimating              \* updateEstimate calls awaiting their reply

vars == <<loaded, formDisabled, overlay, creating, submits, nTimers,
          paymentCheckInterval, timers, retryCount, redirectPending,
          inflight, done, prefix, completedAt, successCalls, timeoutToasts,
          staleSuccess, staleTimeout, errorToasts, created, estimating>>

pollVars == <<nTimers, paymentCheckInterval, timers, retryCount,
              redirectPending, inflight, done, prefix, completedAt,
              successCalls, timeoutToasts, staleSuccess, staleTimeout>>

\* Interval firings of the current session so far: every firing issues one
\* query, which is in flight or answered.
ticks == IF nTimers = 0 THEN 0 ELSE done + inflight[nTimers]

RECURSIVE SumTo(_, _)
SumTo(f, n) == IF n = 0 THEN 0 ELSE f[n] + SumTo(f, n - 1)

TotalInFlight == SumTo(inflight, MaxSubmits)

\* clearInterval(h): disarms timer h; a no-op for undefined or a dead id.
clearInterval(ts, h) == ts \ {h}

Init ==
    /\ loaded = TRUE
    /\ formDisabled = FALSE
    /\ overlay = FALSE
    /\ creating = 0
    /\ submits = 0
    /\ nTimers = 0
    /\ paymentCheckInterval = 0
    /\ timers = {}
    /\ retryCount = 0
    /\ redirectPending = FALSE
    /\ inflight = [s \in Sessions |-> 0]
    /\ done = 0
    /\ prefix = "none"
    /\ completedAt = 0
    /\ successCalls = 0
    /\ timeoutToasts = 0
    /\ staleSuccess = FALSE
    /\ staleTimeout = FALSE
    /\ errorToasts = 0
    /\ created = 0
    /\ estimating = 0

\* startPaymentCheck without the clearInterval of its first line.
startPaymentCheck_NoClear ==
    /\ nTimers' = nTimers + 1
    /\ timers' = timers \cup {nTimers + 1}
    /\ paymentCheckInterval' = nTimers + 1
    /\ retryCount' = 0
    /\ done' = 0 /\ prefix' = "none" /\ completedAt' = 0
    /\ successCalls' = 0 /\ timeoutToasts' = 0

\* startPaymentCheck(paymentId): disarm the stored timer, reset the counter,
\* arm a new interval timer and store its handle.
startPaymentCheck ==
    /\ nTimers' = nTimers + 1
    /\ timers' = clearInterval(timers, paymentCheckInterval) \cup {nTimers + 1}
    /\ paymentCheckInterval' = nTimers + 1
    /\ retryCount' = 0
    /\ done' = 0 /\ prefix' = "none" /\ completedAt' = 0
    /\ successCalls' = 0 /\ timeoutToasts' = 0

\* loadingOverlay.show() and loadingOverlay.hide(): the class d-none is
\* removed from, or added to, the one overlay element.
show(o) == TRUE
hide(o) == FALSE

\* The change listener of the amount and currency inputs: updateEstimate up
\* to its first await; it returns at once when either input is empty.
updateEstimate(filled) ==
    /\ loaded
    /\ ~formDisabled
    /\ IF filled
         THEN /\ estimating < MaxEstimates
              /\ estimating' = estimating + 1
              /\ overlay' = show(overlay)
              /\ UNCHANGED <<loaded, formDisabled, creating, submits,
                             errorToasts, created>>
              /\ UNCHANGED pollVars
         ELSE UNCHANGED vars

\* updateEstimate after its awaits, reply r: on success the text of
\* estimateDisplay is set, otherwise an error toast is shown; neither is
\* read by anything else on the page.  Whatever r is, the finally block
\* hides the overlay.
updateEstimateReply(r) ==
    /\ r \in EstimateReplies
    /\ loaded
    /\ estimating > 0
    /\ estimating' = estimating - 1
    /\ overlay' = hide(overlay)
    /\ UNCHANGED <<loaded, formDisabled, creating, submits, errorToasts,
                   created>>
    /\ UNCHANGED pollVars

\* The submit listener: createDeposit up to its first await.
createDeposit ==
    /\ loaded
    /\ ~formDisabled
    /\ submits < MaxSubmits
    /\ submits' = submits + 1
    /\ creating' = creating + 1
    /\ overlay' = show(overlay)
    /\ UNCHANGED <<loaded, formDisabled, errorToasts, created, estimating>>
    /\ UNCHANGED pollVars

\* createDeposit with the test of data.success left out: every body that
\* parses goes to handleSuccessfulDeposit.
createDepositReply_NoSuccessTest(r) ==
    /\ loaded
    /\ creating > 0
    /\ creating' = creating - 1
    /\ overlay' = hide(overlay)
    /\ created' = created + (IF r = "ok" THEN 1 ELSE 0)
    /\ IF r # "failed"
         THEN /\ startPaymentCheck
              /\ formDisabled' = TRUE
              /\ UNCHANGED errorToasts
         ELSE /\ errorToasts' = errorToasts + 1
              /\ UNCHANGED <<formDisabled, nTimers, timers,
                             paymentCheckInterval, retryCount, done, prefix,
                             completedAt, successCalls, timeoutToasts>>
    /\ UNCHANGED <<loaded, submits, redirectPending, inflight, staleSuccess,
                   staleTimeout, estimating>>

\* createDeposit after its awaits, reply r: handleSuccessfulDeposit on
\* success, the error toast otherwise, and the finally block.
createDepositReply(r) ==
    /\ loaded
    /\ creating > 0
    /\ creating' = creating - 1
    /\ overlay' = hide(overlay)
    /\ created' = created + (IF r = "ok" THEN 1 ELSE 0)
    /\ IF r = "ok"
         THEN /\ startPaymentCheck
              /\ formDisabled' = TRUE
              /\ UNCHANGED errorToasts
         ELSE /\ errorToasts' = errorToasts + 1
              /\ UNCHANGED <<formDisabled, nTimers, timers,
                             paymentCheckInterval, retryCount, done, prefix,
                             completedAt, successCalls, timeoutToasts>>
    /\ UNCHANGED <<loaded, submits, redirectPending, inflight, staleSuccess,
                   staleTimeout, estimating>>

\* The interval callback up to its first await: timer s fires and the
\* status query for its paymentId is sent.
intervalFires(s) ==
    /\ loaded
    /\ s \in timers
    /\ ticks < MaxTicks
    /\ TotalInFlight < MaxInFlight
    /\ inflight' = [inflight EXCEPT ![s] = @ + 1]
    /\ UNCHANGED <<loaded, formDisabled, overlay, creating, submits, nTimers,
                   paymentCheckInterval, timers, retryCount, redirectPending,
                   done, prefix, completedAt, successCalls, timeoutToasts,
                   staleSuccess, staleTimeout, errorToasts, created,
                   estimating>>

\* The interval callback with the clearInterval of the completed branch left
\* out: the timer is disarmed on timeout only.
statusOutcome_NoClearOnSuccess(r, rc) ==
    IF r = "failed"
      THEN [retry |-> rc, success |-> FALSE, timeout |-> FALSE,
            clear |-> FALSE]
      ELSE [retry   |-> rc + 1,
            success |-> (r = "completed"),
            timeout |-> (rc + 1 >= MAX_RETRIES),
            clear   |-> (rc + 1 >= MAX_RETRIES)]

\* The interval callback with every tick, failed ones included, counted and
\* the budget tested before the status: an exhausted budget returns early.
statusOutcome_BudgetFirst(r, rc) ==
    IF rc + 1 >= MAX_RETRIES
      THEN [retry |-> rc + 1, success |-> FALSE, timeout |-> TRUE,
            clear |-> TRUE]
      ELSE [retry   |-> rc + 1,
            success |-> (r = "completed"),
            timeout |-> FALSE,
            clear   |-> (r = "completed")]

\* The interval callback with a catch block that gives up: a failed query
\* stops the polling and tells the user.
statusOutcome_FailStops(r, rc) ==
    IF r = "failed"
      THEN [retry |-> rc, success |-> FALSE, timeout |-> TRUE,
            clear |-> TRUE]
      ELSE [retry   |-> rc + 1,
            success |-> (r = "completed"),
            timeout |-> (rc + 1 >= MAX_RETRIES),
            clear   |-> (r = "completed" \/ rc + 1 >= MAX_RETRIES)]

\* The rest of the interval callback for reply r when the counter is rc:
\* the new counter, whether handlePaymentSuccess is called, whether the
\* timeout toast is shown, whether clearInterval(paymentCheckInterval) runs.
statusOutcome(r, rc) ==
    IF r = "failed"
      THEN [retry |-> rc, success |-> FALSE, timeout |-> FALSE,
            clear |-> FALSE]
      ELSE [retry   |-> rc + 1,
            success |-> (r = "completed"),
            timeout |-> (rc + 1 >= MAX_RETRIES),
            clear   |-> (r = "completed" \/ rc + 1 >= MAX_RETRIES)]

\* Kind of the replies seen so far, extended by reply r.
extendPrefix(p, r) ==
    IF r = "nosuccess" THEN "mixed"
    ELSE IF p = "none" \/ p = r THEN r
    ELSE "mixed"

\* The interval callback of session s after its awaits, reply r.
statusReply(s, r) ==
    LET o == statusOutcome(r, retryCount) IN
    /\ loaded
    /\ inflight[s] > 0
    /\ inflight' = [inflight EXCEPT ![s] = @ - 1]
    /\ retryCount' = o.retry
    /\ timers' = IF o.clear THEN clearInterval(timers, paymentCheckInterval)
                            ELSE timers
    /\ redirectPending' = (redirectPending \/ o.success)
    /\ IF s = nTimers
         THEN /\ done' = done + 1
              /\ successCalls' = successCalls + (IF o.success THEN 1 ELSE 0)
              /\ timeoutToasts' = timeoutToasts + (IF o.timeout THEN 1 ELSE 0)
              /\ IF completedAt # 0
                   THEN UNCHANGED <<prefix, completedAt>>
                   ELSE IF r = "completed"
                     THEN completedAt' = done + 1 /\ UNCHANGED prefix
                     ELSE prefix' = extendPrefix(prefix, r)
                          /\ UNCHANGED completedAt
              /\ UNCHANGED <<staleSuccess, staleTimeout>>
         ELSE /\ staleSuccess' = (staleSuccess \/ o.success)
              /\ staleTimeout' = (staleTimeout \/ o.timeout)
              /\ UNCHANGED <<done, prefix, completedAt, successCalls,
                             timeoutToasts>>
    /\ UNCHANGED <<loaded, formDisabled, overlay, creating, submits, nTimers,
                   paymentCheckInterval, errorToasts, created, estimating>>

\* The timer of handlePaymentSuccess fires: the browser leaves the page for
\* the dashboard, which destroys the page's timers; the replies still
\* outstanding are never delivered.
redirect ==
    /\ loaded
    /\ redirectPending
    /\ loaded' = FALSE
    /\ redirectPending' = FALSE
    /\ timers' = {}
    /\ UNCHANGED <<formDisabled, overlay, creating, submits, nTimers,
                   paymentCheckInterval, retryCount, inflight, done, prefix,
                   completedAt, successCalls, timeoutToasts, staleSuccess,
                   staleTimeout, errorToasts, created, estimating>>

Next ==
    \/ \E filled \in BOOLEAN : updateEstimate(filled)
    \/ \E r \in EstimateReplies : updateEstimateReply(r)
    \/ createDeposit
    \/ \E r \in CreateReplies : createDepositReply(r)
    \/ \E s \in Sessions : intervalFires(s)
    \/ \E s \in Sessions, r \in Replies : statusReply(s, r)
    \/ redirect

Spec == Init /\ [][Next]_vars

TypeOK ==
    /\ loaded \in BOOLEAN /\ formDisabled \in BOOLEAN /\ overlay \in BOOLEAN
    /\ creating \in 0..MaxSubmits /\ submits \in 0..MaxSubmits
    /\ nTimers \in 0..MaxSubmits
    /\ paymentCheckInterval = nTimers
    /\ timers \subseteq Sessions
    /\ retryCount \in 0..(MaxTicks + MaxInFlight)
    /\ done \in 0..MaxTicks
    /\ \A s \in Sessions : inflight[s] \in 0..MaxInFlight
    /\ estimating \in 0..MaxEstimates
    /\ created \in 0..MaxSubmits /\ errorToasts \in 0..MaxSubmits

(***************************************************************************)
(* Properties                                                              *)
(***************************************************************************)

\* Session s has been superseded by a later startPaymentCheck.
superseded(s) == s < nTimers

\* Every reply processed so far by the current session was Pending.
allPending == prefix = "pending" /\ completedAt = 0

\* Every reply processed so far by the current session was a failure.
allFailed == prefix = "failed" /\ completedAt = 0

\* A callback of the current session has called handlePaymentSuccess or
\* shown the timeout toast.
terminal == successCalls > 0 \/ timeoutToasts > 0

\* The step processes a reply of session s.
replyOf(s) == inflight'[s] < inflight[s]

\* C1: at every instant at most one interval timer is armed, however
\* startPaymentCheck calls, timer firings and replies interleave.
C1_AtMostOneTimer == Cardinality(timers) <= 1

\* A second session was started while the first had a query in flight, and
\* only the second session's timer is armed.
C1_Witness == nTimers = 2 /\ inflight[1] > 0 /\ timers = {2}

\* C2: a reply processed for a superseded session calls neither
\* handlePaymentSuccess nor shows the timeout toast, and leaves the counter
\* and the timer of the new session alone.
C2_StaleReplyIsNoOp ==
    /\ [](~staleSuccess /\ ~staleTimeout)
    /\ [][\A s \in Sessions :
            (superseded(s) /\ replyOf(s)) =>
                retryCount' = retryCount /\ timers' = timers]_vars

\* C3: a session all of whose replies are Pending has shown the timeout
\* toast exactly when MAX_RETRIES of its ticks have been processed, and its
\* timer is no longer armed from then on.
C3_TimedOutExactlyAtMax ==
    allPending =>
        /\ (timeoutToasts > 0) <=> (done >= MAX_RETRIES)
        /\ (done >= MAX_RETRIES) => nTimers \notin timers

\* C4: a session all of whose queries fail has stopped polling once
\* MAX_RETRIES of its ticks have been processed.
C4_FailingSessionStops ==
    (allFailed /\ done >= MAX_RETRIES) => nTimers \notin timers

\* C5: once a session has processed a Completed reply on a tick
\* k < MAX_RETRIES, handlePaymentSuccess has been called for it and its timer
\* is disarmed; from the Completed reply on, its timer never fires again.
C5_CompletedStops ==
    /\ [](completedAt \in 1..(MAX_RETRIES - 1) =>
            successCalls >= 1 /\ nTimers \notin timers)
    /\ [][(completedAt \in 1..(MAX_RETRIES - 1) /\ nTimers' = nTimers) =>
            ticks' = ticks]_vars

\* The session got Completed on a tick after its first and before its
\* MAX_RETRIES-th, and the page has not been left yet.
C5_Witness ==
    /\ loaded
    /\ completedAt \in 2..(MAX_RETRIES - 1)
    /\ successCalls >= 1 /\ nTimers \notin timers

\* C6: at no instant are two status queries of one session in flight.
C6_NoOverlappingQueries == \A s \in Sessions : inflight[s] <= 1

\* C7: a session all of whose replies are Pending shows the timeout toast
\* at most once, and exactly once as soon as MAX_RETRIES ticks are processed.
C7_TimeoutToastOnce ==
    allPending =>
        /\ timeoutToasts <= 1
        /\ (done >= MAX_RETRIES) => timeoutToasts = 1

\* C8: once a session is Succeeded or TimedOut, a further tick or reply of
\* that session changes neither the counter nor the timer nor its handle and
\* notifies nobody.
C8_TerminalIsNoOp ==
    [][(terminal /\ nTimers' = nTimers /\ (ticks' # ticks \/ done' # done)) =>
          /\ retryCount' = retryCount
          /\ timers' = timers
          /\ paymentCheckInterval' = paymentCheckInterval
          /\ successCalls' = successCalls
          /\ timeoutToasts' = timeoutToasts]_vars

\* C9: a session that got Pending on ticks 1..MAX_RETRIES-1 and Completed on
\* tick MAX_RETRIES has called handlePaymentSuccess and has shown no timeout
\* toast.
C9_SuccessOnLastTick ==
    (prefix = "pending" /\ completedAt = MAX_RETRIES) =>
        successCalls >= 1 /\ timeoutToasts = 0

\* C10: a session whose queries failed until one came back Completed has
\* called handlePaymentSuccess, however many failures came first.
C10_FailuresDoNotBlockSuccess ==
    (prefix = "failed" /\ completedAt # 0) => successCalls >= 1

\* A session failed on ticks 1..MAX_RETRIES-1, got Completed on tick
\* MAX_RETRIES and called handlePaymentSuccess.
C10_Witness ==
    /\ prefix = "failed" /\ completedAt = MAX_RETRIES
    /\ successCalls >= 1

\* The step is the continuation of a createDeposit whose creation failed:
\* one request fewer awaits its reply and the server did not answer success.
failedCreation == creating' < creating /\ created' = created

\* C11 as stated: a failed creation shows the error toast, starts no poll
\* session and leaves no poll session active.
C11_NoSessionAfterFailure ==
    [][failedCreation =>
          /\ errorToasts' = errorToasts + 1
          /\ nTimers' = nTimers
          /\ timers' = {}]_vars

\* C11 as amended: poll sessions are started by successful creations only,
\* one each; every failed creation shows the error toast, issues no new
\* request and leaves the timers, the handle and the counter as they were.
C11_FailedCreationStartsNothing ==
    /\ [](nTimers = created /\ created + errorToasts + creating = submits)
    /\ [][failedCreation =>
            /\ errorToasts' = errorToasts + 1
            /\ creating' = creating - 1 /\ submits' = submits
            /\ nTimers' = nTimers /\ timers' = timers
            /\ paymentCheckInterval' = paymentCheckInterval
            /\ retryCount' = retryCount]_vars

\* A creation has failed, none is in flight and no session was ever started.
C11_Witness ==
    errorToasts >= 1 /\ creating = 0 /\ nTimers = 0 /\ timers = {}

\* C12: the attempt counter stays within 0..MAX_RETRIES in every reachable
\* state.
C12_RetryCountInRange == retryCount \in 0..MAX_RETRIES

\* The step is the continuation of an interval callback whose status query
\* failed.
failedQuery == \E s \in Sessions : statusReply(s, "failed")

\* C13: a failed status query notifies nobody, leaves the timers, the handle
\* and the counter as they were and arms no redirect: a timer that was armed
\* stays armed and fires again.
C13_FailedQueryIsSilent ==
    [][failedQuery =>
          /\ timers' = timers
          /\ paymentCheckInterval' = paymentCheckInterval
          /\ retryCount' = retryCount
          /\ successCalls' = successCalls /\ timeoutToasts' = timeoutToasts
          /\ staleSuccess' = staleSuccess /\ staleTimeout' = staleTimeout
          /\ errorToasts' = errorToasts
          /\ redirectPending' = redirectPending]_vars

\* The current session has had failed queries only, at least two of them:
\* its timer fired again after a failure and is still armed, nothing was
\* counted and nobody was notified.
C13_Witness ==
    /\ allFailed /\ done >= 2
    /\ nTimers \in timers /\ retryCount = 0
    /\ timeoutToasts = 0 /\ successCalls = 0

\* C14: the loading overlay is visible whenever a createDeposit or an
\* updateEstimate request is in flight.
C14_OverlayCoversRequests ==
    (loaded /\ (creating > 0 \/ estimating > 0)) => overlay
====
